---- MODULE Spec2Model ----
(***************************************************************************)
(* The open-document cache of api/lang/file.go: a map from document URI to *)
(* the document's lines, guarded by one mutex, and the package functions   *)
(* openFile, changeFile, closeFile, getLine, getContent, getLineCount and  *)
(* isOpen that goroutines call on it.                                      *)
(*                                                                         *)
(* A text is a sequence of characters.  A []string is a reference to a     *)
(* backing array on the heap; Nil is the nil slice.  A goroutine           *)
(* runs one call at a time, one step per action: Call, Lock, the body of   *)
(* the critical section, the deferred Unlock, and for getContent and       *)
(* getLineCount the Join or len that runs after files.content returned.    *)
(***************************************************************************)
EXTENDS Integers, Sequences, FiniteSets, TLC

\* ------------------------------------------------------------------ bounds
\* Longest text of the single-caller specification.
MaxLen == 3
\* Most content changes one didChange notification carries.
MaxChanges == 2

\* ------------------------------------------------------------- characters
CR == "\r"
LF == "\n"
X == "x"
Alphabet == {CR, LF, X}

CRLF == <<CR, LF>>
NL == <<LF>>

TextsUpTo(n) == UNION {[1..k -> Alphabet] : k \in 0..n}

\* ------------------------------------------------------- package strings
HasPrefix(s, prefix) ==
    /\ Len(s) >= Len(prefix)
    /\ SubSeq(s, 1, Len(prefix)) = prefix

Drop(s, k) == SubSeq(s, k + 1, Len(s))

RECURSIVE ReplaceOldHead(_, _, _)
\* Mutant of Replace: replaces every occurrence of the first character of
\* old, whatever follows it.
ReplaceOldHead(s, old, new) ==
    IF s = <<>> THEN <<>>
    ELSE IF Head(s) = Head(old)
         THEN (IF HasPrefix(s, old) THEN new \o ReplaceOldHead(Drop(s, Len(old)), old, new)
               ELSE ReplaceOldHead(Tail(s), old, new))
    ELSE <<Head(s)>> \o ReplaceOldHead(Tail(s), old, new)

RECURSIVE Replace(_, _, _)
\* strings.Replace(s, old, new, -1) for a non-empty old: every
\* non-overlapping occurrence, found left to right, becomes new.
Replace(s, old, new) ==
    IF s = <<>> THEN <<>>
    ELSE IF HasPrefix(s, old) THEN new \o Replace(Drop(s, Len(old)), old, new)
    ELSE <<Head(s)>> \o Replace(Tail(s), old, new)

RECURSIVE SplitFrom(_, _, _)
SplitFrom(s, sep, cur) ==
    IF s = <<>> THEN <<cur>>
    ELSE IF HasPrefix(s, sep)
         THEN <<cur>> \o SplitFrom(Drop(s, Len(sep)), sep, <<>>)
         ELSE SplitFrom(Tail(s), sep, Append(cur, Head(s)))

\* Mutant of Split: drops a trailing empty segment.
SplitNoTrailing(s, sep) ==
    LET all == SplitFrom(s, sep, <<>>)
    IN  IF Len(all) > 1 /\ all[Len(all)] = <<>>
        THEN SubSeq(all, 1, Len(all) - 1)
        ELSE all

\* Mutant of Split: keeps only the non-empty segments.
SplitSkipEmpty(s, sep) ==
    SelectSeq(SplitFrom(s, sep, <<>>), LAMBDA seg : seg # <<>>)

\* Mutant of Split: the split of the empty string has no element.
SplitEmptyNone(s, sep) ==
    IF s = <<>> THEN <<>> ELSE SplitFrom(s, sep, <<>>)

\* strings.Split(s, sep) for a non-empty sep: the substrings between the
\* occurrences of sep, one more than there are occurrences.
Split(s, sep) == SplitFrom(s, sep, <<>>)

RECURSIVE JoinEach(_, _)
\* Mutant of Join: the separator follows every element, the last included.
JoinEach(elems, sep) ==
    IF Len(elems) = 0 THEN <<>>
    ELSE elems[1] \o sep \o JoinEach(Tail(elems), sep)

RECURSIVE Join(_, _)
\* strings.Join(elems, sep); the join of no element is the empty string.
Join(elems, sep) ==
    IF Len(elems) = 0 THEN <<>>
    ELSE IF Len(elems) = 1 THEN elems[1]
    ELSE elems[1] \o sep \o Join(Tail(elems), sep)

\* ------------------------------------------------------------ the inputs
Procs == {1, 2}
URIs == {"a", "b"}
\* Texts of the concurrent specification: one line, and two lines with a
\* \r\n line ending.
ConcTexts == {<<X>>, <<X, CR, LF>>}
\* The single caller of the sequential specification and its document.
SeqProcs == {1}
SeqURIs == {"a"}
\* Texts a notification carries after its first content change.
LaterTexts == {<<LF>>}
LineNos == -1 .. (MaxLen + 1)
ConcLineNos == {1}

\* ContentChanges of a DidChangeTextDocumentParams: any number of changes,
\* none included; each is given by its Text.  Lists of one change take
\* every text, longer lists a few.
ChangeLists(texts, most) ==
    {<<>>} \cup {<<t>> : t \in texts} \cup
    {<<t>> \o rest : t \in ConcTexts,
                     rest \in UNION {[1..k -> LaterTexts] : k \in 1..(most - 1)}}

\* The notifications of the two specifications.
SeqTexts == TextsUpTo(MaxLen)
SeqChanges == ChangeLists(SeqTexts, MaxChanges)
ConcChanges == ChangeLists(ConcTexts, 1)

\* --------------------------------------------------------------- the state
VARIABLES
    cache,    \* files.cache: URI -> slice, defined on the URIs it holds
    heap,     \* the backing array of every slice
    mu,       \* files.Mutex: the goroutine holding it, or Unlocked
    pc,       \* where each goroutine is in its call
    op,       \* the call each goroutine makes (or made last)
    slice,    \* the []string files.content returned to getContent/getLineCount
    result,   \* what the call returned to its caller
    lin,      \* history: the call's result had it run alone at its critical section
    during,   \* history: the goroutines that had a call in progress during this one
    locked,   \* history: the goroutine that acquired the mutex last
    last,     \* history of the single caller: the last mutation applied to each URI
    guard     \* history of the guarding reader: what isOpen and getLineCount told it

vars == <<cache, heap, mu, pc, op, slice, result, lin, during, locked, last, guard>>

Nil == <<>>
Unlocked == 0
\* Addresses of backing arrays, named by the URI they were allocated for.
Refs == URIs \X (0 .. Cardinality(Procs))

Range(f) == {f[x] : x \in DOMAIN f}

\* A result: a panic, or the string / int / bool the function returns.
NoRet == [fault |-> FALSE, text |-> <<>>, num |-> 0, flag |-> FALSE]
Panic == [NoRet EXCEPT !.fault = TRUE]
RetText(t) == [NoRet EXCEPT !.text = t]
RetNum(n) == [NoRet EXCEPT !.num = n]
RetFlag(b) == [NoRet EXCEPT !.flag = b]

NoOp == [kind |-> "none", uri |-> "a", text |-> <<>>, changes |-> <<>>, lineNo |-> 0]
NoMutation == [kind |-> "none", text |-> <<>>, shrank |-> FALSE, had |-> FALSE]
\* The reader has seen no entry and no line.
NoGuard == [open |-> FALSE, count |-> 0]

\* ------------------------------------------------ maps, slices, the heap
\* m[k] of a Go map: the zero value (a nil slice) for a key it does not hold.
Lookup(m, k) == IF k \in DOMAIN m THEN m[k] ELSE Nil

\* Mutant of Has: reports the lookup's failure as success.
HasNot(m, k) == k \notin DOMAIN m

\* _, ok := m[k]
Has(m, k) == k \in DOMAIN m

\* Mutant of Store: keeps the value of a key the map already holds.
StoreIfAbsent(m, k, v) ==
    [x \in DOMAIN m \cup {k} |-> IF x \in DOMAIN m THEN m[x] ELSE v]

\* m[k] = v
Store(m, k, v) == [x \in DOMAIN m \cup {k} |-> IF x = k THEN v ELSE m[x]]

\* Mutant of Delete: leaves the map as it is.
DeleteNothing(m, k) == m

\* Mutant of Delete: empties the map.
DeleteAll(m, k) == [x \in {} |-> Nil]

\* delete(m, k): nothing happens for a key the map does not hold.
Delete(m, k) == [x \in DOMAIN m \ {k} |-> m[x]]

\* The elements of a slice; a nil slice has none.
Deref(h, s) == IF s = Nil THEN <<>> ELSE h[s]

\* Mutant of Index: the upper bound check is off by one.
IndexLax(elems, i) ==
    IF i < 0 \/ i > Len(elems) THEN Panic
    ELSE IF i = Len(elems) THEN RetText(<<>>)
    ELSE RetText(elems[i + 1])

\* Mutant of Index: the first element has index 1.
IndexOneBased(elems, i) ==
    IF i < 1 \/ i > Len(elems) THEN Panic ELSE RetText(elems[i])

\* s[i]: index out of range panics.
Index(elems, i) ==
    IF i < 0 \/ i >= Len(elems) THEN Panic ELSE RetText(elems[i + 1])

\* Arrays no slice refers to are garbage; their cells read as empty.
Sweep(h, c, s) ==
    [r \in Refs |-> IF r \in Range(c) \cup Range(s) THEN h[r] ELSE <<>>]

\* The arrays still referred to once cache[uri] is overwritten.
LiveBut(uri) == Range(Delete(cache, uri)) \cup Range(slice)

LowestFree(uri) ==
    LET free == {i \in 0 .. Cardinality(Procs) : <<uri, i>> \notin LiveBut(uri)}
    IN  <<uri, CHOOSE i \in free : \A j \in free : i <= j>>

\* Mutant of NewArray: writes the new lines into the array already stored.
ReuseArray(uri) == IF Has(cache, uri) THEN cache[uri] ELSE LowestFree(uri)

\* strings.Split returns a newly allocated slice: an array no goroutine
\* holds.
NewArray(uri) == LowestFree(uri)

\* ------------------------------------------------------------------ Init
\* var openFilesCache = &files{cache: make(map[lsp.DocumentURI][]string)}
Init ==
    /\ cache = [x \in {} |-> Nil]
    /\ heap = [r \in Refs |-> <<>>]
    /\ mu = Unlocked
    /\ pc = [p \in Procs |-> "idle"]
    /\ op = [p \in Procs |-> NoOp]
    /\ slice = [p \in Procs |-> Nil]
    /\ result = [p \in Procs |-> NoRet]
    /\ lin = [p \in Procs |-> NoRet]
    /\ last = [u \in URIs |-> NoMutation]
    /\ guard = NoGuard
    /\ during = [p \in Procs |-> {}]
    /\ locked = Unlocked

\* ----------------------------------------------------- entering a call
InProgress == {q \in Procs : pc[q] # "idle"}

\* Goroutine p starts call o; it goes on to files.Lock unless evaluating
\* the arguments already panicked.
Begin(p, o, panics) ==
    /\ pc[p] = "idle"
    /\ op' = [op EXCEPT ![p] = o]
    /\ pc' = [pc EXCEPT ![p] = IF panics THEN "idle" ELSE "lock"]
    /\ result' = [result EXCEPT ![p] = IF panics THEN Panic ELSE NoRet]
    /\ lin' = [lin EXCEPT ![p] = IF panics THEN Panic ELSE NoRet]
    /\ during' = [q \in Procs |->
                    IF q = p THEN InProgress \ {p}
                    ELSE IF q \in InProgress THEN during[q] \cup {p}
                    ELSE during[q]]
    /\ UNCHANGED <<cache, heap, mu, slice, locked>>

\* Mutant of ChangeText: the text of the last content change.
LastChangeText(changes) == changes[Len(changes)]

\* params.ContentChanges[0].Text
ChangeText(changes) == changes[1]

openFile(p, uris, texts) ==
    \E uri \in uris, text \in texts :
        Begin(p, [NoOp EXCEPT !.kind = "openFile", !.uri = uri, !.text = text], FALSE)

changeFile(p, uris, lists) ==
    \E uri \in uris, changes \in lists :
        Begin(p, [NoOp EXCEPT !.kind = "changeFile", !.uri = uri, !.changes = changes,
                              !.text = IF Len(changes) = 0 THEN <<>>
                                       ELSE ChangeText(changes)],
              Len(changes) = 0)

closeFile(p, uris) ==
    \E uri \in uris :
        Begin(p, [NoOp EXCEPT !.kind = "closeFile", !.uri = uri], FALSE)

getLine(p, uris, lineNos) ==
    \E uri \in uris, line \in lineNos :
        Begin(p, [NoOp EXCEPT !.kind = "getLine", !.uri = uri, !.lineNo = line], FALSE)

getContent(p, uris) ==
    \E uri \in uris :
        Begin(p, [NoOp EXCEPT !.kind = "getContent", !.uri = uri], FALSE)

getLineCount(p, uris) ==
    \E uri \in uris :
        Begin(p, [NoOp EXCEPT !.kind = "getLineCount", !.uri = uri], FALSE)

isOpen(p, uris) ==
    \E uri \in uris :
        Begin(p, [NoOp EXCEPT !.kind = "isOpen", !.uri = uri], FALSE)

\* ------------------------------------------------------------ the mutex
\* Mutant of Lock: does not wait for the mutex to be free.
LockNoWait(p) ==
    /\ pc[p] = "lock"
    /\ mu' = p
    /\ locked' = p
    /\ pc' = [pc EXCEPT ![p] = "body"]
    /\ UNCHANGED <<cache, heap, op, slice, result, lin, during>>

\* file.Lock()
Lock(p) ==
    /\ pc[p] = "lock"
    /\ mu = Unlocked
    /\ mu' = p
    /\ locked' = p
    /\ pc' = [pc EXCEPT ![p] = "body"]
    /\ UNCHANGED <<cache, heap, op, slice, result, lin, during>>

\* Where the goroutine goes once files.* has returned: getContent and
\* getLineCount still have the Join / len to do, the others return; a panic
\* unwinds to the caller.
AfterUnlock(p) ==
    IF op[p].kind \in {"getContent", "getLineCount"} /\ ~result[p].fault
    THEN "post" ELSE "idle"

\* defer file.Unlock(): runs when the method returns and when it panics.
Unlock(p) ==
    /\ pc[p] = "unlock"
    /\ mu' = Unlocked
    /\ pc' = [pc EXCEPT ![p] = AfterUnlock(p)]
    /\ UNCHANGED <<cache, heap, op, slice, result, lin, during, locked>>

\* --------------------------------------------------- critical sections
Lines(uri) == Deref(heap, Lookup(cache, uri))

\* Mutant of AfterBody: Unlock is an ordinary last statement, skipped when
\* the body panics.
AfterBodyNoDefer(r) == IF r.fault THEN "idle" ELSE "unlock"

\* defer file.Unlock(): the unlock comes next whether the body returned or
\* panicked.
AfterBody(r) == "unlock"

\* Mutant of add: a changeFile of a URI that has no entry stores nothing.
addIfOpen(p) ==
    /\ pc[p] = "body"
    /\ op[p].kind \in {"openFile", "changeFile"}
    /\ LET uri == op[p].uri
           text == Replace(op[p].text, CRLF, NL)
           r == NewArray(uri)
           c == IF op[p].kind = "changeFile" /\ ~Has(cache, uri)
                THEN cache ELSE Store(cache, uri, r)
       IN  /\ cache' = c
           /\ heap' = Sweep([heap EXCEPT ![r] = Split(text, NL)], c, slice)
    /\ pc' = [pc EXCEPT ![p] = "unlock"]
    /\ UNCHANGED <<mu, op, slice, result, lin, during, locked>>

\* files.add, between Lock and Unlock.
add(p) ==
    /\ pc[p] = "body"
    /\ op[p].kind \in {"openFile", "changeFile"}
    /\ LET uri == op[p].uri
           text == Replace(op[p].text, CRLF, NL)
           r == NewArray(uri)
           c == Store(cache, uri, r)
       IN  /\ cache' = c
           /\ heap' = Sweep([heap EXCEPT ![r] = Split(text, NL)], c, slice)
    /\ pc' = [pc EXCEPT ![p] = "unlock"]
    /\ UNCHANGED <<mu, op, slice, result, lin, during, locked>>

\* Mutant of remove: deleting a key the map does not hold panics.
removeStrict(p) ==
    /\ pc[p] = "body"
    /\ op[p].kind = "closeFile"
    /\ LET uri == op[p].uri
           c == Delete(cache, uri)
       IN  /\ cache' = c
           /\ heap' = Sweep(heap, c, slice)
           /\ result' = [result EXCEPT ![p] = IF Has(cache, uri) THEN NoRet ELSE Panic]
    /\ pc' = [pc EXCEPT ![p] = "unlock"]
    /\ UNCHANGED <<mu, op, slice, lin, during, locked>>

\* files.remove, between Lock and Unlock.
remove(p) ==
    /\ pc[p] = "body"
    /\ op[p].kind = "closeFile"
    /\ LET uri == op[p].uri
           c == Delete(cache, uri)
       IN  /\ cache' = c
           /\ heap' = Sweep(heap, c, slice)
    /\ pc' = [pc EXCEPT ![p] = "unlock"]
    /\ UNCHANGED <<mu, op, slice, result, lin, during, locked>>

\* files.line, between Lock and Unlock: file.cache[uri][lineNo].
line(p) ==
    /\ pc[p] = "body"
    /\ op[p].kind = "getLine"
    /\ LET r == Index(Lines(op[p].uri), op[p].lineNo)
       IN  /\ result' = [result EXCEPT ![p] = r]
           /\ lin' = [lin EXCEPT ![p] = r]
           /\ pc' = [pc EXCEPT ![p] = AfterBody(r)]
    /\ UNCHANGED <<cache, heap, mu, op, slice, during, locked>>

\* Mutant of content: the lookup stores the zero value it found for a
\* missing key, as a map with default entries would.
contentCreates(p) ==
    /\ pc[p] = "body"
    /\ op[p].kind \in {"getContent", "getLineCount"}
    /\ slice' = [slice EXCEPT ![p] = Lookup(cache, op[p].uri)]
    /\ lin' = [lin EXCEPT ![p] =
                  IF op[p].kind = "getContent"
                  THEN RetText(Join(Lines(op[p].uri), NL))
                  ELSE RetNum(Len(Lines(op[p].uri)))]
    /\ cache' = Store(cache, op[p].uri, Lookup(cache, op[p].uri))
    /\ pc' = [pc EXCEPT ![p] = "unlock"]
    /\ UNCHANGED <<heap, mu, op, result, during, locked>>

\* files.content, between Lock and Unlock: returns the slice file.cache[uri].
content(p) ==
    /\ pc[p] = "body"
    /\ op[p].kind \in {"getContent", "getLineCount"}
    /\ slice' = [slice EXCEPT ![p] = Lookup(cache, op[p].uri)]
    /\ lin' = [lin EXCEPT ![p] =
                  IF op[p].kind = "getContent"
                  THEN RetText(Join(Lines(op[p].uri), NL))
                  ELSE RetNum(Len(Lines(op[p].uri)))]
    /\ pc' = [pc EXCEPT ![p] = "unlock"]
    /\ UNCHANGED <<cache, heap, mu, op, result, during, locked>>

\* files.exists, between Lock and Unlock.
exists(p) ==
    /\ pc[p] = "body"
    /\ op[p].kind = "isOpen"
    /\ LET r == RetFlag(Has(cache, op[p].uri))
       IN  /\ result' = [result EXCEPT ![p] = r]
           /\ lin' = [lin EXCEPT ![p] = r]
    /\ pc' = [pc EXCEPT ![p] = "unlock"]
    /\ UNCHANGED <<cache, heap, mu, op, slice, during, locked>>

\* ------------------------------------- after files.content has returned
\* The slice openFilesCache.content(uri) evaluated to.
Fetched(p) == slice[p]

\* The goroutine drops the slice when its call returns.
Finish(p, r) ==
    /\ result' = [result EXCEPT ![p] = r]
    /\ slice' = [slice EXCEPT ![p] = Nil]
    /\ heap' = Sweep(heap, cache, [slice EXCEPT ![p] = Nil])
    /\ pc' = [pc EXCEPT ![p] = "idle"]
    /\ UNCHANGED <<cache, mu, op, lin, during, locked>>

\* getContent: strings.Join(..., "\n") of the returned slice.
joinLines(p) ==
    /\ pc[p] = "post"
    /\ op[p].kind = "getContent"
    /\ Finish(p, RetText(Join(Deref(heap, Fetched(p)), NL)))

\* getLineCount: len(...) of the returned slice.
lenLines(p) ==
    /\ pc[p] = "post"
    /\ op[p].kind = "getLineCount"
    /\ Finish(p, RetNum(Len(Deref(heap, Fetched(p)))))

\* ------------------------------------------------- the specifications
\* Goroutines calling the package functions concurrently.
Next ==
    \E p \in Procs :
        \/ openFile(p, URIs, ConcTexts) /\ UNCHANGED <<last, guard>>
        \/ changeFile(p, URIs, ConcChanges) /\ UNCHANGED <<last, guard>>
        \/ closeFile(p, URIs) /\ UNCHANGED <<last, guard>>
        \/ getLine(p, URIs, ConcLineNos) /\ UNCHANGED <<last, guard>>
        \/ getContent(p, URIs) /\ UNCHANGED <<last, guard>>
        \/ getLineCount(p, URIs) /\ UNCHANGED <<last, guard>>
        \/ isOpen(p, URIs) /\ UNCHANGED <<last, guard>>
        \/ Lock(p) /\ UNCHANGED <<last, guard>>
        \/ add(p) /\ UNCHANGED <<last, guard>>
        \/ remove(p) /\ UNCHANGED <<last, guard>>
        \/ line(p) /\ UNCHANGED <<last, guard>>
        \/ content(p) /\ UNCHANGED <<last, guard>>
        \/ exists(p) /\ UNCHANGED <<last, guard>>
        \/ Unlock(p) /\ UNCHANGED <<last, guard>>
        \/ joinLines(p) /\ UNCHANGED <<last, guard>>
        \/ lenLines(p) /\ UNCHANGED <<last, guard>>

Spec == Init /\ [][Next]_vars

\* The history the single caller keeps: the mutation its critical section
\* applies, whether it left the document with fewer lines than it had, and
\* whether the document had an entry before.
Record(p) ==
    last' = [last EXCEPT ![op[p].uri] =
                [kind |-> op[p].kind, text |-> op[p].text,
                 shrank |-> Len(Lines(op[p].uri)') < Len(Lines(op[p].uri)),
                 had |-> Has(cache, op[p].uri)]]

\* One caller, one document, every text of at most MaxLen characters.
SeqNext ==
    \E p \in SeqProcs :
        \/ openFile(p, SeqURIs, SeqTexts) /\ UNCHANGED <<last, guard>>
        \/ changeFile(p, SeqURIs, SeqChanges) /\ UNCHANGED <<last, guard>>
        \/ closeFile(p, SeqURIs) /\ UNCHANGED <<last, guard>>
        \/ getLine(p, SeqURIs, LineNos) /\ UNCHANGED <<last, guard>>
        \/ getContent(p, SeqURIs) /\ UNCHANGED <<last, guard>>
        \/ getLineCount(p, SeqURIs) /\ UNCHANGED <<last, guard>>
        \/ isOpen(p, SeqURIs) /\ UNCHANGED <<last, guard>>
        \/ Lock(p) /\ UNCHANGED <<last, guard>>
        \/ add(p) /\ Record(p) /\ UNCHANGED guard
        \/ remove(p) /\ Record(p) /\ UNCHANGED guard
        \/ line(p) /\ UNCHANGED <<last, guard>>
        \/ content(p) /\ UNCHANGED <<last, guard>>
        \/ exists(p) /\ UNCHANGED <<last, guard>>
        \/ Unlock(p) /\ UNCHANGED <<last, guard>>
        \/ joinLines(p) /\ UNCHANGED <<last, guard>>
        \/ lenLines(p) /\ UNCHANGED <<last, guard>>

SeqSpec == Init /\ [][SeqNext]_vars

\* Two goroutines on one document under fair scheduling: a goroutine that
\* can take a step of its call takes it, and a goroutine waiting in Lock
\* gets the mutex if it is free again and again (sync.Mutex hands the mutex
\* to a waiter that has been starved).
LiveURIs == {"a"}
LiveTexts == {<<X>>, <<X, LF>>}
LiveChanges == ChangeLists(LiveTexts, 1)

LiveNext ==
    \E p \in Procs :
        \/ openFile(p, LiveURIs, LiveTexts) /\ UNCHANGED <<last, guard>>
        \/ changeFile(p, LiveURIs, LiveChanges) /\ UNCHANGED <<last, guard>>
        \/ closeFile(p, LiveURIs) /\ UNCHANGED <<last, guard>>
        \/ getLine(p, LiveURIs, ConcLineNos) /\ UNCHANGED <<last, guard>>
        \/ getContent(p, LiveURIs) /\ UNCHANGED <<last, guard>>
        \/ getLineCount(p, LiveURIs) /\ UNCHANGED <<last, guard>>
        \/ isOpen(p, LiveURIs) /\ UNCHANGED <<last, guard>>
        \/ Lock(p) /\ UNCHANGED <<last, guard>>
        \/ add(p) /\ UNCHANGED <<last, guard>>
        \/ remove(p) /\ UNCHANGED <<last, guard>>
        \/ line(p) /\ UNCHANGED <<last, guard>>
        \/ content(p) /\ UNCHANGED <<last, guard>>
        \/ exists(p) /\ UNCHANGED <<last, guard>>
        \/ Unlock(p) /\ UNCHANGED <<last, guard>>
        \/ joinLines(p) /\ UNCHANGED <<last, guard>>
        \/ lenLines(p) /\ UNCHANGED <<last, guard>>

\* The steps of a call that wait for nothing.
Runs(p) ==
    /\ UNCHANGED <<last, guard>>
    /\ \/ add(p) \/ remove(p) \/ line(p) \/ content(p) \/ exists(p)
       \/ Unlock(p) \/ joinLines(p) \/ lenLines(p)

Acquires(p) == Lock(p) /\ UNCHANGED <<last, guard>>

LiveSpec ==
    /\ Init
    /\ [][LiveNext]_vars
    /\ \A p \in Procs : WF_vars(Runs(p)) /\ SF_vars(Acquires(p))

\* A feature provider that guards its getLine with isOpen and getLineCount,
\* as callers of the package do, while the notification handler opens,
\* changes and closes the same document.
Readers == {1}
Writers == {2}
GuardLineNos == {0, 1}

\* isOpen returned: the reader knows whether the document is open, and
\* nothing of its lines yet.
Sees(p) == guard' = [open |-> result'[p].flag, count |-> 0]

\* getLineCount returned: the reader of an open document knows its count.
Counts(p) ==
    guard' = [guard EXCEPT !.count = IF guard.open THEN result'[p].num ELSE 0]

\* getLine uses up what the reader knew.
Forgets == guard' = NoGuard

GuardNext ==
    \/ \E p \in Writers :
          \/ openFile(p, LiveURIs, LiveTexts) /\ UNCHANGED <<last, guard>>
          \/ changeFile(p, LiveURIs, LiveChanges) /\ UNCHANGED <<last, guard>>
          \/ closeFile(p, LiveURIs) /\ UNCHANGED <<last, guard>>
          \/ add(p) /\ UNCHANGED <<last, guard>>
          \/ remove(p) /\ UNCHANGED <<last, guard>>
    \/ \E p \in Readers :
          \/ isOpen(p, LiveURIs) /\ UNCHANGED <<last, guard>>
          \/ getLineCount(p, LiveURIs) /\ UNCHANGED <<last, guard>>
          \/ getLine(p, LiveURIs, GuardLineNos) /\ UNCHANGED <<last, guard>>
          \/ exists(p) /\ Sees(p) /\ UNCHANGED last
          \/ content(p) /\ UNCHANGED <<last, guard>>
          \/ lenLines(p) /\ Counts(p) /\ UNCHANGED last
          \/ line(p) /\ Forgets /\ UNCHANGED last
    \/ \E p \in Procs :
          \/ Lock(p) /\ UNCHANGED <<last, guard>>
          \/ Unlock(p) /\ UNCHANGED <<last, guard>>

GuardSpec == Init /\ [][GuardNext]_vars

\* ------------------------------------------------------------ properties
\* t with every \r\n sequence replaced by \n: the \r of each \r\n is dropped.
RECURSIVE DropCRFrom(_, _)
DropCRFrom(t, i) ==
    IF i > Len(t) THEN <<>>
    ELSE IF t[i] = CR /\ i < Len(t) /\ t[i + 1] = LF THEN DropCRFrom(t, i + 1)
    ELSE <<t[i]>> \o DropCRFrom(t, i + 1)

Normalized(t) == DropCRFrom(t, 1)

\* The \n-separated segments of t: one more than it has \n characters.
SegmentCount(t) == 1 + Cardinality({i \in 1..Len(t) : t[i] = LF})

\* What getContent(uri) evaluates to on the current store.
Content(uri) == Join(Lines(uri), NL)

Returned(p, kind) == pc[p] = "idle" /\ op[p].kind = kind

Mutations == {"openFile", "changeFile", "closeFile"}

\* p's step is the critical section of its call.
RunsBody(p) == pc[p] = "body" /\ pc'[p] # "body"

\* The two calls were in progress at the same time.
Overlapped(p, q) == q \in during[p] /\ p \in during[q]

\* C1: openFile(uri, T) followed by getContent(uri), with no mutation of uri
\* in between, returns T with every \r\n replaced by \n, and the empty
\* string for the empty T.
C1_OpenThenContent ==
    \A p \in Procs :
        Returned(p, "getContent") /\ last[op[p].uri].kind = "openFile" =>
            /\ result[p] = RetText(Normalized(last[op[p].uri].text))
            /\ last[op[p].uri].text = <<>> => result[p].text = <<>>

C1_Witness ==
    \E p \in Procs :
        /\ Returned(p, "getContent")
        /\ last[op[p].uri].kind = "openFile"
        /\ last[op[p].uri].text = <<X, CR, LF>>
        /\ result[p].text = <<X, LF>>

C3_LastLockerWins ==
    \A p, q \in Procs :
        /\ p # q
        /\ Returned(p, "changeFile") /\ ~result[p].fault
        /\ Returned(q, "changeFile") /\ ~result[q].fault
        /\ op[p].uri = op[q].uri
        /\ op[p].text # op[q].text
        => /\ locked \in {p, q}
           /\ Has(cache, op[p].uri)
           /\ Content(op[p].uri) = Normalized(op[locked].text)

C3_Witness ==
    \E p, q \in Procs :
        /\ p # q
        /\ Returned(p, "changeFile") /\ ~result[p].fault
        /\ Returned(q, "changeFile") /\ ~result[q].fault
        /\ op[p].uri = op[q].uri
        /\ Normalized(op[p].text) # Normalized(op[q].text)
        /\ Overlapped(p, q)
        /\ locked = q
        /\ Content(op[p].uri) = Normalized(op[q].text)

\* C4: every call returns what it would have returned had it run alone at
\* the moment of its critical section, which lies between its call and its
\* return; getContent and getLineCount, which compute their result from
\* the fetched slice after the unlock, included.
C4_Linearizable ==
    \A p \in Procs : pc[p] = "idle" => result[p] = lin[p]

C4_Witness ==
    \E p, q \in Procs :
        /\ Returned(p, "getContent")
        /\ Overlapped(p, q)
        /\ Returned(q, "changeFile") /\ ~result[q].fault
        /\ op[q].uri = op[p].uri
        /\ locked = q
        /\ Has(cache, op[p].uri)
        /\ result[p].text # <<>>
        /\ result[p].text # Content(op[p].uri)

\* The next step of p reads or writes the map or the lines of a document.
TouchesMap(p) == pc[p] = "body"
ReadsLines(p) == pc[p] = "post"

\* C5 as stated: every step that reads or writes the map or the stored
\* lines, the Join and len of getContent and getLineCount included, is
\* taken holding the mutex.
C5_AllUnderLock ==
    \A p \in Procs : TouchesMap(p) \/ ReadsLines(p) => mu = p

\* C5 amended: at most one call is in its critical section, and every step
\* that reads or writes the map (the normalization and split of add
\* included) is taken holding the mutex; the Join and len of getContent and
\* getLineCount run after the unlock, on the slice fetched under it.
C5_MapUnderLock ==
    /\ \A p, q \in Procs :
          pc[p] \in {"body", "unlock"} /\ pc[q] \in {"body", "unlock"} => p = q
    /\ \A p \in Procs : pc[p] \in {"body", "unlock"} => mu = p
    /\ \A p \in Procs : ReadsLines(p) => mu # p

C5_Witness ==
    \E p, q \in Procs :
        /\ ReadsLines(p)
        /\ pc[q] = "unlock" /\ mu = q
        /\ op[q].kind \in {"openFile", "changeFile"}
        /\ op[q].uri = op[p].uri
        /\ slice[p] # Lookup(cache, op[p].uri)

\* C6: the mutex is never left held by a call that returned or panicked,
\* and under fair scheduling every call that waits for the mutex acquires
\* it and completes, also after a getLine that panicked.
C6_LockReleased ==
    /\ [](\A p \in Procs : mu = p => pc[p] \in {"body", "unlock"})
    /\ \A p \in Procs : (pc[p] = "lock") ~> (pc[p] = "idle")

\* A call that waited while a getLine panicked holds the mutex afterwards.
C6_Witness ==
    \E p, q \in Procs :
        /\ Returned(p, "getLine") /\ result[p].fault
        /\ p \in during[q]
        /\ pc[q] = "body" /\ mu = q

\* C7 as stated: openFile, changeFile and closeFile never panic, whatever
\* text or list of content changes they are given.
C7_MutationsNeverFault ==
    \A p \in Procs : op[p].kind \in Mutations => ~result[p].fault

\* C8: the critical section of closeFile(uri) leaves uri without entry, and
\* only the critical section of an openFile or changeFile on uri gives it
\* an entry again.
C8_ClosedUntilReopened ==
    [][\A u \in URIs :
          /\ \A p \in Procs :
                RunsBody(p) /\ op[p].kind = "closeFile" /\ op[p].uri = u
                    => ~Has(cache', u)
          /\ ~Has(cache, u) /\ Has(cache', u) =>
                \E p \in Procs :
                    /\ RunsBody(p)
                    /\ op[p].kind \in {"openFile", "changeFile"}
                    /\ op[p].uri = u]_vars

\* closeFile removed an entry that an openFile had made, and isOpen then
\* returned false.
C8_Witness ==
    \E p, q \in Procs :
        /\ pc[p] = "unlock" /\ op[p].kind = "closeFile"
        /\ Returned(q, "openFile") /\ op[q].uri = op[p].uri
        /\ locked = p
        /\ ~Has(cache, op[p].uri)

\* C9: after changeFile(uri, T2), getContent returns T2 normalized and
\* getLineCount its number of segments, whatever the document held before,
\* also when that had more lines.
C9_ChangeReplaces ==
    \A p \in Procs :
        /\ pc[p] = "idle"
        /\ last[op[p].uri].kind = "changeFile"
        => LET t2 == Normalized(last[op[p].uri].text)
           IN  /\ op[p].kind = "getContent" => result[p] = RetText(t2)
               /\ op[p].kind = "getLineCount" => result[p] = RetNum(SegmentCount(t2))
               /\ Len(Lines(op[p].uri)) = SegmentCount(t2)

C9_Witness ==
    \E p \in Procs :
        /\ Returned(p, "getLineCount")
        /\ last[op[p].uri].kind = "changeFile"
        /\ last[op[p].uri].shrank
        /\ result[p].num > 1

\* The entry of u: whether the map holds u, and its lines.
Entry(u) == <<Has(cache, u), Lines(u)>>

\* C10: the entry of a URI changes only in the critical section of an
\* openFile, changeFile or closeFile on that URI, whatever calls on other
\* URIs run concurrently, and an openFile or changeFile leaves its URI with
\* the lines of its own normalized text.
C10_Independent ==
    [][\A u \in URIs :
          /\ Entry(u)' # Entry(u) =>
                \E p \in Procs :
                    RunsBody(p) /\ op[p].kind \in Mutations /\ op[p].uri = u
          /\ \A p \in Procs :
                RunsBody(p) /\ op[p].kind \in {"openFile", "changeFile"} /\ op[p].uri = u
                    => Content(u)' = Normalized(op[p].text)]_vars

\* Concurrent openFile(A, TA) and openFile(B, TB) have both returned.
C10_Witness ==
    \E p, q \in Procs :
        /\ Returned(p, "openFile") /\ Returned(q, "openFile")
        /\ op[p].uri # op[q].uri
        /\ op[p].text # op[q].text
        /\ Overlapped(p, q)
        /\ Content(op[p].uri) = Normalized(op[p].text)
        /\ Content(op[q].uri) = Normalized(op[q].text)

Reads == {"getLine", "getContent", "getLineCount", "isOpen"}

\* C11: no step of isOpen, getLine, getContent or getLineCount, whatever the
\* URI (with or without entry) and the line index, and whether or not the
\* call panics, changes the set of URIs the map holds or the lines of any
\* of them; a read of a URI without entry leaves it without entry.
C11_ReadsKeepMapping ==
    [][\A p \in Procs :
          pc'[p] # pc[p] /\ op'[p].kind \in Reads
              => /\ DOMAIN cache' = DOMAIN cache
                 /\ \A u \in URIs : Entry(u)' = Entry(u)]_vars

\* getLine of a URI without entry has just panicked in its critical
\* section, the other URI has its entry, and the URI still has none.
C11_Witness ==
    \E p \in Procs :
        /\ pc[p] = "unlock" /\ op[p].kind = "getLine"
        /\ result[p].fault
        /\ ~Has(cache, op[p].uri)
        /\ DOMAIN cache # {}

Stored == {"openFile", "changeFile"}

\* C12: a URI has an entry exactly when the last mutation applied to it was
\* an openFile or a changeFile (none for a URI never passed to either, none
\* after a closeFile), and isOpen returns exactly that.
C12_ExistsIffStored ==
    /\ \A u \in URIs : u \in DOMAIN cache <=> last[u].kind \in Stored
    /\ \A p \in Procs :
          Returned(p, "isOpen") =>
              result[p] = RetFlag(last[op[p].uri].kind \in Stored)

\* isOpen returned false after a closeFile that removed an entry.
C12_Witness ==
    \E p \in Procs :
        /\ Returned(p, "isOpen")
        /\ last[op[p].uri].kind = "closeFile"
        /\ last[op[p].uri].had
        /\ result[p] = RetFlag(FALSE)

\* C13: getLineCount after openFile(uri, T) returns the number of
\* \n-separated segments of T normalized, one more than it has \n
\* characters: at least 1, and exactly 1 for the empty T.
C13_CountAfterOpen ==
    \A p \in Procs :
        Returned(p, "getLineCount") /\ last[op[p].uri].kind = "openFile" =>
            LET t == last[op[p].uri].text
            IN  /\ result[p] = RetNum(SegmentCount(Normalized(t)))
                /\ result[p].num >= 1
                /\ t = <<>> => result[p].num = 1

C13_Witness ==
    \E p \in Procs :
        /\ Returned(p, "getLineCount")
        /\ last[op[p].uri].kind = "openFile"
        /\ last[op[p].uri].text = <<LF, CR, LF>>
        /\ result[p].num = 3

Breaks(t) == {i \in 1..Len(t) : t[i] = LF}

\* The n-th \n-separated segment of t, counted from 0: what lies between
\* the n-th \n (or the start) and the next \n (or the end).
Segment(t, n) ==
    LET starts == {0} \cup Breaks(t)
        from == CHOOSE i \in starts : Cardinality({j \in starts : j < i}) = n
        ends == {j \in Breaks(t) \cup {Len(t) + 1} : j > from}
        to == CHOOSE j \in ends : \A k \in ends : j <= k
    IN  SubSeq(t, from + 1, to - 1)

Segments(t) == [n \in 1..SegmentCount(t) |-> Segment(t, n - 1)]

\* C15: the critical section of changeFile(uri, text) has the effect of
\* that of openFile(uri, text) in every state: the URI has an entry
\* afterwards, whether or not it had one, its lines are the segments of the
\* normalized text and its content is that text, and no other entry
\* changes.
C15_ChangeLikeOpen ==
    [][\A p \in Procs :
          RunsBody(p) /\ op[p].kind \in Stored =>
              /\ Has(cache', op[p].uri)
              /\ Lines(op[p].uri)' = Segments(Normalized(op[p].text))
              /\ Content(op[p].uri)' = Normalized(op[p].text)
              /\ \A u \in URIs \ {op[p].uri} : Entry(u)' = Entry(u)]_vars

\* changeFile of a URI that had no entry has returned and left it with one.
C15_Witness ==
    \E p \in Procs :
        /\ Returned(p, "changeFile") /\ ~result[p].fault
        /\ last[op[p].uri].kind = "changeFile"
        /\ ~last[op[p].uri].had
        /\ last[op[p].uri].text = <<X, CR, LF>>
        /\ Has(cache, op[p].uri)
        /\ Content(op[p].uri) = <<X, LF>>

\* C16: getLine(uri, n) of a URI with an entry returns segment n of the
\* normalized text stored last when 0 <= n < count, and panics for every
\* other n, negative or not below count; the entry is as the last mutation
\* left it after either.
C16_LineOrFault ==
    \A p \in Procs :
        Returned(p, "getLine") /\ last[op[p].uri].kind \in Stored =>
            LET t == Normalized(last[op[p].uri].text)
                n == op[p].lineNo
            IN  /\ result[p] = IF 0 <= n /\ n < SegmentCount(t)
                               THEN RetText(Segment(t, n))
                               ELSE Panic
                /\ Has(cache, op[p].uri)
                /\ Lines(op[p].uri) = Segments(t)

\* getLine panicked for the index equal to the count of a document of
\* several lines.
C16_Witness ==
    \E p \in Procs :
        /\ Returned(p, "getLine") /\ result[p].fault
        /\ last[op[p].uri].kind \in Stored
        /\ op[p].lineNo = Len(Lines(op[p].uri))
        /\ op[p].lineNo >= 2

\* C17: after changeFile with one or more content changes the content is
\* the normalized text of the first, whatever the others hold.
C17_FirstChangeOnly ==
    \A p \in Procs :
        /\ op[p].kind = "changeFile"
        /\ pc[p] \in {"unlock", "idle"}
        /\ Len(op[p].changes) > 0
        => /\ ~result[p].fault
           /\ Has(cache, op[p].uri)
           /\ Content(op[p].uri) = Normalized(Head(op[p].changes))
           /\ Lines(op[p].uri) = Segments(Normalized(Head(op[p].changes)))

C17_Witness ==
    \E p \in Procs :
        /\ Returned(p, "changeFile")
        /\ op[p].changes = <<(<<X, CR, LF>>), (<<LF>>)>>
        /\ Content(op[p].uri) = <<X, LF>>

\* C18: closeFile never panics, and its critical section on a URI that has
\* no entry leaves the map and every stored line as they are.
C18_CloseAbsentNoOp ==
    /\ [](\A p \in Procs : op[p].kind = "closeFile" => ~result[p].fault)
    /\ [][\A p \in Procs :
            RunsBody(p) /\ op[p].kind = "closeFile" /\ ~Has(cache, op[p].uri) =>
                /\ cache' = cache
                /\ heap' = heap
                /\ \A u \in URIs : Entry(u)' = Entry(u)]_vars

\* closeFile of a URI that had no entry has returned.
C18_Witness ==
    \E p \in Procs :
        /\ Returned(p, "closeFile") /\ ~result[p].fault
        /\ last[op[p].uri].kind = "closeFile"
        /\ ~last[op[p].uri].had
        /\ ~Has(cache, op[p].uri)

\* C19: a getLine(uri, n) that the reader makes after isOpen(uri) returned
\* true and getLineCount(uri) then returned more than n does not panic,
\* whatever changeFile and closeFile calls on uri run between its calls.
C19_GuardSuffices ==
    [][\A p \in Readers :
          /\ RunsBody(p) /\ op[p].kind = "getLine"
          /\ guard.open
          /\ 0 <= op[p].lineNo /\ op[p].lineNo < guard.count
          => ~result'[p].fault]_vars

\* t holds a \r\n sequence.
HasCRLF(t) == \E i \in 1..(Len(t) - 1) : t[i] = CR /\ t[i + 1] = LF

\* t holds a \r right before a \r\n sequence.
HasCRCRLF(t) ==
    \E i \in 1..(Len(t) - 2) : t[i] = CR /\ t[i + 1] = CR /\ t[i + 2] = LF

\* p's step is the critical section of an openFile of a document, opened
\* last by openFile, with the document's own content.
Reopens(p) ==
    /\ RunsBody(p) /\ op[p].kind = "openFile"
    /\ last[op[p].uri].kind = "openFile"
    /\ op[p].text = Content(op[p].uri)

\* C20 as stated: after openFile(uri, T) the content holds no \r\n, for
\* every T, and openFile(uri, content) leaves the lines, their count and
\* the content as they are.
C20_FixedPoint ==
    /\ [](\A u \in URIs : last[u].kind = "openFile" => ~HasCRLF(Content(u)))
    /\ [][\A p \in Procs :
            Reopens(p) =>
                /\ Lines(op[p].uri)' = Lines(op[p].uri)
                /\ Content(op[p].uri)' = Content(op[p].uri)]_vars

\* C20 amended: after openFile(uri, T) the content holds a \r\n exactly
\* when T holds a \r right before a \r\n; for every other T,
\* openFile(uri, content) leaves the lines, their count and the content as
\* they are, and for such a T it changes the lines.
C20_FixedPointUnlessCRCRLF ==
    /\ [](\A u \in URIs :
             last[u].kind = "openFile" =>
                 (HasCRLF(Content(u)) <=> HasCRCRLF(last[u].text)))
    /\ [][\A p \in Procs :
            Reopens(p) =>
                IF HasCRCRLF(last[op[p].uri].text)
                THEN Lines(op[p].uri)' # Lines(op[p].uri)
                ELSE /\ Lines(op[p].uri)' = Lines(op[p].uri)
                     /\ Content(op[p].uri)' = Content(op[p].uri)]_vars

\* openFile(uri, T) with a T that normalization changed has been applied,
\* and an openFile of uri with the content it left is in its critical
\* section.
C20_Witness ==
    \E p \in Procs :
        /\ pc[p] = "body" /\ op[p].kind = "openFile"
        /\ last[op[p].uri].kind = "openFile"
        /\ op[p].text = Content(op[p].uri)
        /\ last[op[p].uri].text = <<CR, LF, X>>
        /\ Content(op[p].uri) = <<LF, X>>

====
